---- MODULE Spec2Model ----
(***************************************************************************)
(* Model of part9_hw_interrupt/src/main.cpp: a timer ISR (onTimer) samples *)
(* the ADC into a circular buffer, taskCalculateAverage is woken by a task *)
(* notification and averages BUF_LEN samples, taskCLI echoes serial input. *)
(*                                                                         *)
(* The ISR runs to completion (it preempts the tasks on the same core), so *)
(* onTimer is one atomic action.  taskCalculateAverage advances one        *)
(* statement per step, so ISR firings interleave with every step of it.    *)
(***************************************************************************)
EXTENDS Integers, Sequences, FiniteSets, TLC

(* ---- program constants ---- *)
BUF_LEN == 10
CMD_BUF_LEN == 255
avg_cmd == <<"a", "v", "g">>

(* ---- bounds of the model ---- *)
MaxFired == 3      \* history counters saturate here
MaxNotify == 3     \* cap of the notification value
MaxInput == 5      \* characters the serial line delivers
MaxCap == 3        \* largest capacity of a buffer under test
MaxOps == 3        \* calls made on a buffer drawn at will
Samples == {0, 100, 200}
Chars == {"a", "v", "g", "x", "LF", "CR"}

VARIABLES
    my_circ_buf,   \* [arr, head, tail, max_len]
    buf_idx,       \* uint8_t
    avg,           \* float, kept exactly as [num, den]
    notify,        \* notification value of taskCalculateAverage
    pc,            \* position of taskCalculateAverage
    i,             \* loop counter of the drain loop
    tmp_avg,       \* running sum of the drain loop
    adc_val,       \* the ISR's last analogRead
    cmd_buf,       \* taskCLI: the bytes before the first NUL of cmd_buf
    out,           \* what taskCLI wrote to Serial
    rx,            \* characters taskCLI has read
    fired,         \* history: ISR firings (saturating)
    lastRet,       \* history: <<result>> of the push of the last firing, if any
    gives,         \* history: notifications given (saturating)
    wakes,         \* history: returns from ulTaskNotifyTake (saturating)
    batch,         \* history: values pushed since buf_idx was last reset
    drained,       \* history: values popped in the current drain
    stored,        \* history: values pushed into my_circ_buf and not yet popped
    pub,           \* history: the popped values whose mean was last written to avg
    t_buf,         \* buffer under test
    t_in,          \* values to push into the buffer under test
    t_rets,        \* results of the pushes done so far
    t_pops,        \* results of the pops done so far
    t_out,         \* values the pops returned
    t_count,       \* history: successful pushes minus successful pops
    t_last,        \* history: the last push, before and after
    t_lastPop      \* history: the last pop, before and after

progVars == <<my_circ_buf, buf_idx, avg, notify, pc, i, tmp_avg, adc_val,
              cmd_buf, out, rx, fired, lastRet, gives, wakes, batch, drained,
              stored, pub>>
testVars == <<t_buf, t_in, t_rets, t_pops, t_out, t_count, t_last,
              t_lastPop>>
vars == <<my_circ_buf, buf_idx, avg, notify, pc, i, tmp_avg, adc_val,
          cmd_buf, out, rx, fired, lastRet, gives, wakes, batch, drained,
          stored, pub, t_buf, t_in, t_rets, t_pops, t_out, t_count, t_last,
          t_lastPop>>

Min(a, b) == IF a < b THEN a ELSE b

(* CIRC_BBUF_DEF(x, y): y zeroed slots, head = tail = 0 *)
CIRC_BBUF_DEF(y) ==
    [arr |-> [s \in 0..(y - 1) |-> 0], head |-> 0, tail |-> 0, max_len |-> y]

(* circ_bbuf_push advancing head without the modulo *)
circ_bbuf_push_noWrap(buf, data) ==
    IF buf.tail = buf.head
    THEN [buf |-> buf, ret |-> -1]
    ELSE [buf |-> [buf EXCEPT !.arr[buf.head] = data, !.head = buf.head + 1],
          ret |-> 0]

(* int circ_bbuf_push(buf, data): the buffer afterwards and the return value *)
circ_bbuf_push(buf, data) ==
    IF buf.tail = buf.head
    THEN [buf |-> buf, ret |-> -1]
    ELSE [buf |-> [buf EXCEPT !.arr[buf.head] = data,
                              !.head = (buf.head + 1) % buf.max_len],
          ret |-> 0]

(* circ_bbuf_pop advancing tail without the modulo *)
circ_bbuf_pop_noWrap(buf, data) ==
    IF buf.tail = buf.head
    THEN [buf |-> buf, ret |-> -1, data |-> data]
    ELSE [buf |-> [buf EXCEPT !.tail = buf.tail + 1],
          ret |-> 0, data |-> buf.arr[buf.tail]]

(* int circ_bbuf_pop(buf, data): data is the output location's old content *)
circ_bbuf_pop(buf, data) ==
    IF buf.tail = buf.head
    THEN [buf |-> buf, ret |-> -1, data |-> data]
    ELSE [buf |-> [buf EXCEPT !.tail = (buf.tail + 1) % buf.max_len],
          ret |-> 0, data |-> buf.arr[buf.tail]]

ProgInit ==
    /\ my_circ_buf = CIRC_BBUF_DEF(BUF_LEN)
    /\ buf_idx = 0
    /\ avg = [num |-> 0, den |-> 1]
    /\ notify = 0
    /\ pc = "take"
    /\ i = 0
    /\ tmp_avg = 0
    /\ adc_val = 0
    /\ cmd_buf = <<>>
    /\ out = <<>>
    /\ rx = 0
    /\ fired = 0
    /\ lastRet = <<>>
    /\ gives = 0
    /\ wakes = 0
    /\ batch = <<>>
    /\ drained = <<>>
    /\ stored = 0
    /\ pub = <<>>

TestIdle ==
    /\ t_buf = CIRC_BBUF_DEF(1)
    /\ t_in = <<>>
    /\ t_rets = <<>>
    /\ t_pops = <<>>
    /\ t_out = <<>>
    /\ t_count = 0
    /\ t_last = [done |-> FALSE]
    /\ t_lastPop = [done |-> FALSE]

Init == ProgInit /\ TestIdle

(* onTimer with the notification given on every firing *)
onTimer_giveAlways(v) ==
    LET doRead == buf_idx < BUF_LEN
        r == circ_bbuf_push(my_circ_buf, v)
        pushed == doRead /\ r.ret = 0
        idx1 == IF pushed THEN (buf_idx + 1) % 256 ELSE buf_idx
    IN  /\ pc # "abort"
        /\ my_circ_buf' = IF doRead THEN r.buf ELSE my_circ_buf
        /\ buf_idx' = idx1
        /\ adc_val' = IF doRead THEN v ELSE adc_val
        /\ notify' = Min(notify + 1, MaxNotify)
        /\ fired' = Min(fired + 1, MaxFired)
        /\ lastRet' = IF doRead THEN <<r.ret>> ELSE <<>>
        /\ gives' = Min(gives + 1, MaxFired)
        /\ batch' = IF pushed THEN Append(batch, v) ELSE batch
        /\ stored' = IF pushed THEN stored + 1 ELSE stored
        /\ UNCHANGED <<avg, pc, i, tmp_avg, cmd_buf, out, rx, wakes, drained,
                       pub>>
        /\ UNCHANGED testVars

(* onTimer counting every firing in buf_idx, pushed or not *)
onTimer_countAll(v) ==
    LET r == circ_bbuf_push(my_circ_buf, v)
        pushed == r.ret = 0
        idx1 == (buf_idx + 1) % 256
        give == idx1 >= BUF_LEN
    IN  /\ pc # "abort"
        /\ my_circ_buf' = r.buf
        /\ buf_idx' = idx1
        /\ adc_val' = v
        /\ notify' = IF give THEN Min(notify + 1, MaxNotify) ELSE notify
        /\ fired' = Min(fired + 1, MaxFired)
        /\ lastRet' = <<r.ret>>
        /\ gives' = IF give THEN Min(gives + 1, MaxFired) ELSE gives
        /\ batch' = IF pushed THEN Append(batch, v) ELSE batch
        /\ stored' = IF pushed THEN stored + 1 ELSE stored
        /\ UNCHANGED <<avg, pc, i, tmp_avg, cmd_buf, out, rx, wakes, drained,
                       pub>>
        /\ UNCHANGED testVars

(* onTimer storing the sample it read in avg *)
onTimer_writesAvg(v) ==
    LET doRead == buf_idx < BUF_LEN
        r == circ_bbuf_push(my_circ_buf, v)
        pushed == doRead /\ r.ret = 0
        idx1 == IF pushed THEN (buf_idx + 1) % 256 ELSE buf_idx
        give == idx1 >= BUF_LEN
    IN  /\ pc # "abort"
        /\ my_circ_buf' = IF doRead THEN r.buf ELSE my_circ_buf
        /\ buf_idx' = idx1
        /\ adc_val' = IF doRead THEN v ELSE adc_val
        /\ avg' = IF doRead THEN [num |-> v, den |-> 1] ELSE avg
        /\ notify' = IF give THEN Min(notify + 1, MaxNotify) ELSE notify
        /\ fired' = Min(fired + 1, MaxFired)
        /\ lastRet' = IF doRead THEN <<r.ret>> ELSE <<>>
        /\ gives' = IF give THEN Min(gives + 1, MaxFired) ELSE gives
        /\ batch' = IF pushed THEN Append(batch, v) ELSE batch
        /\ stored' = IF pushed THEN stored + 1 ELSE stored
        /\ UNCHANGED <<pc, i, tmp_avg, cmd_buf, out, rx, wakes, drained, pub>>
        /\ UNCHANGED testVars

(* void IRAM_ATTR onTimer(), v the value analogRead returns *)
onTimer(v) ==
    LET doRead == buf_idx < BUF_LEN
        r == circ_bbuf_push(my_circ_buf, v)
        pushed == doRead /\ r.ret = 0
        idx1 == IF pushed THEN (buf_idx + 1) % 256 ELSE buf_idx
        give == idx1 >= BUF_LEN
    IN  /\ pc # "abort"
        /\ my_circ_buf' = IF doRead THEN r.buf ELSE my_circ_buf
        /\ buf_idx' = idx1
        /\ adc_val' = IF doRead THEN v ELSE adc_val
        /\ notify' = IF give THEN Min(notify + 1, MaxNotify) ELSE notify
        /\ fired' = Min(fired + 1, MaxFired)
        /\ lastRet' = IF doRead THEN <<r.ret>> ELSE <<>>
        /\ gives' = IF give THEN Min(gives + 1, MaxFired) ELSE gives
        /\ batch' = IF pushed THEN Append(batch, v) ELSE batch
        /\ stored' = IF pushed THEN stored + 1 ELSE stored
        /\ UNCHANGED <<avg, pc, i, tmp_avg, cmd_buf, out, rx, wakes, drained,
                       pub>>
        /\ UNCHANGED testVars

(* taskCalculateAverage: one statement per step *)
taskCalculateAverage ==
    /\ UNCHANGED <<adc_val, cmd_buf, out, rx, fired, lastRet, gives>>
    /\ UNCHANGED testVars
    /\ pub' = IF pc = "publish" THEN drained ELSE pub
    /\ CASE pc = "take" ->
            (* ulTaskNotifyTake(pdTRUE, portMAX_DELAY) is called *)
            IF notify > 0
            THEN /\ notify' = 0
                 /\ pc' = "drain"
                 /\ i' = 0
                 /\ tmp_avg' = 0
                 /\ wakes' = Min(wakes + 1, MaxFired)
                 /\ drained' = <<>>
                 /\ UNCHANGED <<my_circ_buf, buf_idx, avg, batch, stored>>
            ELSE /\ pc' = "blocked"
                 /\ UNCHANGED <<my_circ_buf, buf_idx, avg, notify, i, tmp_avg,
                                wakes, batch, drained, stored>>
         [] pc = "blocked" ->
            (* the blocked task is made ready by a notification *)
            /\ notify > 0
            /\ notify' = 0
            /\ pc' = "drain"
            /\ i' = 0
            /\ tmp_avg' = 0
            /\ wakes' = Min(wakes + 1, MaxFired)
            /\ drained' = <<>>
            /\ UNCHANGED <<my_circ_buf, buf_idx, avg, batch, stored>>
         [] pc = "drain" ->
            IF i < BUF_LEN
            THEN LET r == circ_bbuf_pop(my_circ_buf, 0)
                 IN  IF r.ret = -1
                     THEN (* the assert fails *)
                          /\ pc' = "abort"
                          /\ UNCHANGED <<my_circ_buf, buf_idx, avg, notify, i,
                                         tmp_avg, wakes, batch, drained, stored>>
                     ELSE /\ my_circ_buf' = r.buf
                          /\ tmp_avg' = tmp_avg + r.data
                          /\ i' = i + 1
                          /\ drained' = Append(drained, r.data)
                          /\ stored' = stored - 1
                          /\ UNCHANGED <<buf_idx, avg, notify, pc, wakes, batch>>
            ELSE /\ pc' = "publish"
                 /\ UNCHANGED <<my_circ_buf, buf_idx, avg, notify, i, tmp_avg,
                                wakes, batch, drained, stored>>
         [] pc = "publish" ->
            (* tmp_avg /= BUF_LEN; avg = tmp_avg; *)
            /\ avg' = [num |-> tmp_avg, den |-> BUF_LEN]
            /\ pc' = "reset"
            /\ UNCHANGED <<my_circ_buf, buf_idx, notify, i, tmp_avg, wakes,
                           batch, drained, stored>>
         [] pc = "reset" ->
            (* buf_idx = 0; *)
            /\ buf_idx' = 0
            /\ pc' = "take"
            /\ batch' = <<>>
            /\ UNCHANGED <<my_circ_buf, avg, notify, i, tmp_avg, wakes, drained,
                           stored>>
         [] OTHER -> FALSE

(* the first n bytes of the zero-filled cmd_buf *)
FirstBytes(buf, n) == [k \in 1..n |-> IF k <= Len(buf) THEN buf[k] ELSE "NUL"]

(* Serial.println(float): the value with two fractional digits, in hundredths *)
println(a) == (2 * 100 * a.num + a.den) \div (2 * a.den)

(* taskCLI: one pass of the loop with a character c available *)
taskCLI(c) ==
    LET buf1 == IF Len(cmd_buf) < CMD_BUF_LEN - 1
                THEN Append(cmd_buf, c) ELSE cmd_buf
        eol == c \in {"LF", "CR"}
        isAvg == FirstBytes(buf1, Len(avg_cmd)) = avg_cmd
    IN  /\ pc # "abort"
        /\ rx < MaxInput
        /\ rx' = rx + 1
        /\ out' = IF eol /\ isAvg
                  THEN Append(Append(out, [kind |-> "echo", val |-> c]),
                              [kind |-> "println", val |-> println(avg)])
                  ELSE Append(out, [kind |-> "echo", val |-> c])
        /\ cmd_buf' = IF eol THEN <<>> ELSE buf1
        /\ UNCHANGED <<my_circ_buf, buf_idx, avg, notify, pc, i, tmp_avg,
                       adc_val, fired, lastRet, gives, wakes, batch, drained,
                       stored, pub>>
        /\ UNCHANGED testVars

Next ==
    \/ \E v \in Samples : onTimer(v)
    \/ taskCalculateAverage
    \/ \E c \in Chars : taskCLI(c)

Spec == Init /\ [][Next]_vars

(* the timer keeps firing and taskCalculateAverage is scheduled fairly *)
FairSpec ==
    /\ Init
    /\ [][Next]_vars
    /\ WF_vars(\E v \in Samples : onTimer(v))
    /\ WF_vars(taskCalculateAverage)

(***************************************************************************)
(* circ_bbuf_push and circ_bbuf_pop on their own: a buffer of capacity     *)
(* 1..MaxCap as CIRC_BBUF_DEF leaves it, k <= capacity values pushed, then *)
(* k pops.                                                                 *)
(***************************************************************************)
SeqsOfLen(n) == [1..n -> Samples]

BufInit ==
    /\ ProgInit
    /\ \E cap \in 1..MaxCap :
          /\ t_buf = CIRC_BBUF_DEF(cap)
          /\ \E k \in 1..cap : t_in \in SeqsOfLen(k)
    /\ t_rets = <<>>
    /\ t_pops = <<>>
    /\ t_out = <<>>
    /\ t_count = 0
    /\ t_last = [done |-> FALSE]
    /\ t_lastPop = [done |-> FALSE]

(* the next value of t_in is pushed *)
TestPush ==
    /\ Len(t_rets) < Len(t_in)
    /\ LET v == t_in[Len(t_rets) + 1]
           r == circ_bbuf_push(t_buf, v)
       IN  /\ t_buf' = r.buf
           /\ t_rets' = Append(t_rets, r.ret)
           /\ t_count' = IF r.ret = 0 THEN t_count + 1 ELSE t_count
           /\ t_last' = [done |-> TRUE, before |-> t_buf, count |-> t_count,
                         after |-> r.buf, ret |-> r.ret]
    /\ UNCHANGED <<t_in, t_pops, t_out, t_lastPop>>
    /\ UNCHANGED progVars

(* one pop, once every value of t_in was pushed *)
TestPop ==
    /\ Len(t_rets) = Len(t_in)
    /\ Len(t_pops) < Len(t_in)
    /\ LET r == circ_bbuf_pop(t_buf, "unset")
       IN  /\ t_buf' = r.buf
           /\ t_pops' = Append(t_pops, r.ret)
           /\ t_out' = Append(t_out, r.data)
           /\ t_count' = IF r.ret = 0 THEN t_count - 1 ELSE t_count
           /\ t_lastPop' = [done |-> TRUE, before |-> t_buf, loc |-> "unset",
                            after |-> r.buf, ret |-> r.ret, data |-> r.data]
    /\ UNCHANGED <<t_in, t_rets, t_last>>
    /\ UNCHANGED progVars

BufNext == TestPush \/ TestPop

SpecBuf == BufInit /\ [][BufNext]_vars

(***************************************************************************)
(* circ_bbuf_push and circ_bbuf_pop as functions of the structure: any     *)
(* buffer of capacity 1..MaxCap with head and tail inside it, and up to    *)
(* MaxOps calls in any order.                                              *)
(***************************************************************************)
OpsInit ==
    /\ ProgInit
    /\ \E cap \in 1..MaxCap :
          \E h \in 0..(cap - 1), t \in 0..(cap - 1) :
             \E a \in [0..(cap - 1) -> Samples] :
                t_buf = [arr |-> a, head |-> h, tail |-> t, max_len |-> cap]
    /\ t_in = <<>>
    /\ t_rets = <<>>
    /\ t_pops = <<>>
    /\ t_out = <<>>
    /\ t_count = 0
    /\ t_last = [done |-> FALSE]
    /\ t_lastPop = [done |-> FALSE]

OpsPush(v) ==
    /\ Len(t_rets) + Len(t_pops) < MaxOps
    /\ LET r == circ_bbuf_push(t_buf, v)
       IN  /\ t_buf' = r.buf
           /\ t_rets' = Append(t_rets, r.ret)
           /\ t_last' = [done |-> TRUE, before |-> t_buf, count |-> t_count,
                         after |-> r.buf, ret |-> r.ret]
    /\ UNCHANGED <<t_in, t_pops, t_out, t_count, t_lastPop>>
    /\ UNCHANGED progVars

OpsPop ==
    /\ Len(t_rets) + Len(t_pops) < MaxOps
    /\ LET r == circ_bbuf_pop(t_buf, "unset")
       IN  /\ t_buf' = r.buf
           /\ t_pops' = Append(t_pops, r.ret)
           /\ t_out' = Append(t_out, r.data)
           /\ t_lastPop' = [done |-> TRUE, before |-> t_buf, loc |-> "unset",
                            after |-> r.buf, ret |-> r.ret, data |-> r.data]
    /\ UNCHANGED <<t_in, t_rets, t_count, t_last>>
    /\ UNCHANGED progVars

OpsNext == (\E v \in Samples : OpsPush(v)) \/ OpsPop

SpecOps == OpsInit /\ [][OpsNext]_vars

(* ---- claims ---- *)

AllZero(rets) == \A k \in 1..Len(rets) : rets[k] = 0

(* C2: if the timer keeps firing and taskCalculateAverage is scheduled     *)
(* fairly, buf_idx eventually reaches BUF_LEN, a notification is           *)
(* eventually given and a batch average is eventually written to avg.      *)
C2_EventuallyAveraged ==
    /\ <>(buf_idx = BUF_LEN)
    /\ <>(gives > 0)
    /\ <>(pc = "reset")

(* C3: k <= capacity values pushed into a fresh buffer are all accepted,   *)
(* and k pops then all succeed and return the values in the order pushed.  *)
C3_FifoRoundTrip ==
    (Len(t_rets) = Len(t_in) /\ Len(t_pops) = Len(t_in) /\ Len(t_in) >= 1)
        => (AllZero(t_rets) /\ AllZero(t_pops) /\ t_out = t_in)

(* C5: a notification is given only by a firing that leaves                *)
(* buf_idx >= BUF_LEN with BUF_LEN values pushed since the last reset, and *)
(* taskCalculateAverage is past ulTaskNotifyTake only if a notification    *)
(* was given for each of its wakes.                                        *)
C5_WakeOrdering ==
    /\ [][gives' # gives
            => (buf_idx' >= BUF_LEN /\ Len(batch') = BUF_LEN)]_vars
    /\ [](pc \in {"drain", "publish", "reset"} => (gives >= 1 /\ wakes <= gives))
    /\ [](wakes <= gives)

(* C5 witness: the ISR has fired on an incomplete batch and gave no        *)
(* notification, and the task went to wait without popping anything.       *)
C5_Witness ==
    /\ fired > 0
    /\ buf_idx < BUF_LEN
    /\ gives = 0
    /\ notify = 0
    /\ pc = "blocked"
    /\ drained = <<>>

(* C8: a push into a buffer holding max_len unconsumed values returns -1   *)
(* and changes nothing, and a push returns -1 only when the buffer holds   *)
(* max_len unconsumed values.                                              *)
C8_PushFailsOnlyWhenFull ==
    t_last.done =>
        /\ (t_last.count = t_last.before.max_len
               => (t_last.ret = -1 /\ t_last.after = t_last.before))
        /\ (t_last.ret = -1 => t_last.count = t_last.before.max_len)

(* C9: no push attempted by onTimer is rejected, and head = tail only when *)
(* my_circ_buf holds no unconsumed value.                                  *)
C9_FullCheckNeverTriggers ==
    /\ lastRet # <<-1>>
    /\ (my_circ_buf.head = my_circ_buf.tail => stored = 0)

(* C10: 0 <= buf_idx <= BUF_LEN always, and buf_idx is set to 0 only by    *)
(* taskCalculateAverage's reset, after BUF_LEN values were popped.         *)
C10_BufIdxRange ==
    /\ [](buf_idx \in 0..BUF_LEN)
    /\ [][((buf_idx # 0 /\ buf_idx' = 0) \/ (pc = "reset" /\ pc' = "take"))
            => (pc = "reset" /\ Len(drained) = BUF_LEN)]_vars

(* C10 witness: the ISR has fired MaxFired times, each time attempting a   *)
(* push, and buf_idx is still in range.                                    *)
C10_Witness ==
    /\ fired = MaxFired
    /\ lastRet # <<>>
    /\ buf_idx \in 0..BUF_LEN

RECURSIVE SumSeq(_)
SumSeq(q) == IF q = <<>> THEN 0 ELSE q[1] + SumSeq(Tail(q))

(* a step of onTimer: only the ISR changes fired, adc_val or lastRet *)
IsrStep == fired' # fired \/ adc_val' # adc_val \/ lastRet' # lastRet

(* C12: avg is its initial value 0.0 or the mean of BUF_LEN values popped  *)
(* in one completed drain; no partial sum and no undivided sum is in avg.  *)
C12_AvgInitialOrBatchMean ==
    \/ (pub = <<>> /\ avg = [num |-> 0, den |-> 1])
    \/ (Len(pub) = BUF_LEN /\ avg = [num |-> SumSeq(pub), den |-> BUF_LEN])

(* C12 witness: the ISR has fired, the task has gone to wait, the console  *)
(* has printed avg, and avg holds its initial value.                       *)
C12_Witness ==
    /\ fired = MaxFired
    /\ pc = "blocked"
    /\ \E k \in 1..Len(out) : out[k] = [kind |-> "println", val |-> 0]
    /\ avg = [num |-> 0, den |-> 1]

(* C14: a firing whose push fails changes neither my_circ_buf, buf_idx nor *)
(* avg and gives no notification.                                          *)
C14_FailedPushNoOp ==
    [][(IsrStep /\ lastRet' = <<-1>>)
          => /\ my_circ_buf' = my_circ_buf
             /\ buf_idx' = buf_idx
             /\ avg' = avg
             /\ notify' = notify
             /\ gives' = gives
             /\ stored' = stored]_vars

(* C14 witness: a firing's push has failed and the buffer, buf_idx and the *)
(* notification value are as they were.                                    *)
C14_Witness ==
    /\ fired > 0
    /\ lastRet = <<-1>>
    /\ adc_val # 0
    /\ my_circ_buf = CIRC_BBUF_DEF(BUF_LEN)
    /\ buf_idx = 0
    /\ notify = 0

(* C15: circ_bbuf_pop on an empty buffer returns -1 and changes neither    *)
(* the buffer nor the output location; on a non-empty buffer it returns 0  *)
(* with the element at tail, advances tail by one modulo max_len and       *)
(* leaves head and the elements as they were.                              *)
C15_PopContract ==
    t_lastPop.done =>
        LET b == t_lastPop.before
            a == t_lastPop.after
        IN  IF b.head = b.tail
            THEN /\ t_lastPop.ret = -1
                 /\ a = b
                 /\ t_lastPop.data = t_lastPop.loc
            ELSE /\ t_lastPop.ret = 0
                 /\ t_lastPop.data = b.arr[b.tail]
                 /\ a.tail = (b.tail + 1) % b.max_len
                 /\ a.head = b.head
                 /\ a.arr = b.arr
                 /\ a.max_len = b.max_len

(* C15 witness: a pop from the last slot succeeded and wrapped tail to 0,  *)
(* and the pop after it found the buffer empty and failed.                 *)
C15_Witness ==
    /\ t_pops = <<0, -1>>
    /\ t_buf.max_len > 1
    /\ t_buf.tail = 0
    /\ t_out[1] \in Samples
    /\ t_lastPop.done
    /\ t_lastPop.ret = -1
    /\ t_lastPop.data = "unset"

(* C16: avg changes only in the publish step of taskCalculateAverage, and  *)
(* with no drain begun every value the console printed is the one avg has. *)
C16_AvgOnlyPublished ==
    /\ [][avg' # avg => (pc = "publish" /\ pc' = "reset")]_vars
    /\ [](wakes = 0 =>
            \A k \in 1..Len(out) :
               out[k].kind = "println" => out[k].val = println(avg))

(* C16 witness: the console printed avg, the ISR fired and the task went   *)
(* to wait, and avg is as it was.                                          *)
C16_Witness ==
    /\ \E k \in 1..Len(out) : out[k].kind = "println"
    /\ fired > 0
    /\ lastRet # <<>>
    /\ pc = "blocked"
    /\ avg = [num |-> 0, den |-> 1]

(* C17: taskCLI echoes every character; on a terminator it prints avg if   *)
(* and only if the line before the terminator is exactly avg_cmd, and      *)
(* cmd_buf is cleared after every terminator.                              *)
C17_ExactAvgCommand ==
    [][rx' = rx + 1 =>
         LET c == out'[Len(out) + 1]
             eol == c.val \in {"LF", "CR"}
         IN  /\ Len(out') > Len(out)
             /\ c.kind = "echo"
             /\ (Len(out') = Len(out) + 2) <=> (eol /\ cmd_buf = avg_cmd)
             /\ (Len(out') = Len(out) + 2) => out'[Len(out) + 2].kind = "println"
             /\ eol => cmd_buf' = <<>>]_vars

(* C19: head and tail stay inside 0..max_len-1, a pop leaves head and a    *)
(* push leaves tail as it was.                                             *)
C19_IndicesInBounds ==
    /\ [](/\ t_buf.head \in 0..(t_buf.max_len - 1)
          /\ t_buf.tail \in 0..(t_buf.max_len - 1)
          /\ my_circ_buf.head \in 0..(my_circ_buf.max_len - 1)
          /\ my_circ_buf.tail \in 0..(my_circ_buf.max_len - 1))
    /\ [][t_buf.head' # t_buf.head => Len(t_rets') > Len(t_rets)]_vars
    /\ [][t_buf.tail' # t_buf.tail => Len(t_pops') > Len(t_pops)]_vars

(* C19 witness: a push wrote the last slot and wrapped head to 0.          *)
C19_Witness ==
    /\ t_last.done
    /\ t_last.ret = 0
    /\ t_last.before.head = t_last.before.max_len - 1
    /\ t_last.before.max_len > 1
    /\ t_buf.head = 0

(* C20: while taskCalculateAverage is blocked, the values pushed and not   *)
(* popped number buf_idx, and (head - tail) mod max_len = buf_idx mod      *)
(* max_len; buf_idx grows by one at a time and only with a successful push.*)
C20_StoredEqualsBufIdx ==
    /\ [](pc = "blocked" =>
            /\ stored = buf_idx
            /\ (my_circ_buf.head - my_circ_buf.tail) % my_circ_buf.max_len
                  = buf_idx % my_circ_buf.max_len)
    /\ [][buf_idx' > buf_idx =>
            /\ buf_idx' = buf_idx + 1
            /\ stored' = stored + 1
            /\ lastRet' = <<0>>]_vars

(* C20 witness: the task is blocked and the ISR has fired MaxFired times,  *)
(* each push attempted.                                                    *)
C20_Witness ==
    /\ pc = "blocked"
    /\ fired = MaxFired
    /\ lastRet # <<>>
    /\ stored = buf_idx

====
